---- MODULE Spec2Model ----
(***************************************************************************)
(* Model of the ROI calculator widget of src/app/page.tsx: the React       *)
(* state of App (config, inputs, results), the browser's local storage,    *)
(* the mount/update effects and the input handlers.                        *)
(*                                                                         *)
(* JavaScript values are records [k, n, d]: k is the kind of the value and, *)
(* for a number, n/d is its value as a reduced fraction (d > 0).  Numbers   *)
(* are exact rationals; the rounding of IEEE doubles is not modelled.       *)
(* Values are compared as Object.is compares them (NaN is the same value   *)
(* as NaN).                                                                *)
(***************************************************************************)
EXTENDS Integers, Sequences, FiniteSets, TLC

\* ------------------------------------------------------------------------
\* JavaScript values
\* ------------------------------------------------------------------------

RECURSIVE Gcd(_, _)
Gcd(a, b) == IF b = 0 THEN a ELSE Gcd(b, a % b)

Abs(x) == IF x < 0 THEN -x ELSE x

\* the number n/d, reduced (d # 0)
Rat(n, d) ==
    LET g == Gcd(Abs(n), Abs(d))
        s == IF d < 0 THEN -1 ELSE 1
    IN  [k |-> "num", n |-> s * (n \div g), d |-> s * (d \div g)]

Num(n) == [k |-> "num", n |-> n, d |-> 1]

NaN == [k |-> "nan", n |-> 0, d |-> 1]

PosInf == [k |-> "inf", n |-> 0, d |-> 1]

NegInf == [k |-> "ninf", n |-> 0, d |-> 1]

Undefined == [k |-> "undef", n |-> 0, d |-> 1]

Null == [k |-> "null", n |-> 0, d |-> 1]

\* a non-empty string that is not the text of a number, such as "abc"
Str == [k |-> "str", n |-> 0, d |-> 1]

IsNum(v) == v.k = "num"

\* ToNumber: what Math.min, Math.max and the arithmetic operators do to an
\* operand first (undefined and a non-numeric string give NaN, null gives 0)
ToNumber(v) ==
    CASE v.k = "num" -> v
      [] v.k = "inf" -> v
      [] v.k = "ninf" -> v
      [] v.k = "null" -> Num(0)
      [] OTHER -> NaN

\* ToBoolean is false: undefined, null, NaN and 0 (a non-empty string is truthy)
Falsy(v) == v.k \in {"undef", "null", "nan"} \/ (v.k = "num" /\ v.n = 0)

\* a || b
OrElse(a, b) == IF Falsy(a) THEN b ELSE a

\* a < b on numbers (never true when an operand is NaN)
NumLt(a, b) ==
    CASE a.k = "nan" \/ b.k = "nan" -> FALSE
      [] a.k = "ninf" -> b.k # "ninf"
      [] b.k = "inf" -> a.k # "inf"
      [] a.k = "inf" \/ b.k = "ninf" -> FALSE
      [] OTHER -> a.n * b.d < b.n * a.d

\* a > b, a >= b of JavaScript, operands converted as the operators do
JsGt(a, b) == NumLt(ToNumber(b), ToNumber(a))

JsGe(a, b) ==
    LET x == ToNumber(a)
        y == ToNumber(b)
    IN  x.k # "nan" /\ y.k # "nan" /\ ~NumLt(x, y)

MathMin(a, b) ==
    LET x == ToNumber(a)
        y == ToNumber(b)
    IN  IF x.k = "nan" \/ y.k = "nan" THEN NaN
        ELSE IF NumLt(y, x) THEN y ELSE x

MathMax(a, b) ==
    LET x == ToNumber(a)
        y == ToNumber(b)
    IN  IF x.k = "nan" \/ y.k = "nan" THEN NaN
        ELSE IF NumLt(x, y) THEN y ELSE x

\* Arithmetic.  The operands of the calculation are sanitized values, which
\* are finite numbers or NaN; an infinite operand only arises as a quotient
\* by zero and is propagated.
JsAdd(a, b) ==
    LET x == ToNumber(a)
        y == ToNumber(b)
    IN  IF IsNum(x) /\ IsNum(y) THEN Rat(x.n * y.d + y.n * x.d, x.d * y.d)
        ELSE IF x.k = "nan" \/ y.k = "nan" THEN NaN
        ELSE IF IsNum(x) THEN y
        ELSE IF IsNum(y) \/ x.k = y.k THEN x
        ELSE NaN

JsNeg(a) ==
    LET x == ToNumber(a)
    IN  CASE x.k = "num" -> Rat(-x.n, x.d)
          [] x.k = "inf" -> NegInf
          [] x.k = "ninf" -> PosInf
          [] OTHER -> NaN

JsSub(a, b) == JsAdd(a, JsNeg(b))

Sign(x) ==
    CASE x.k = "inf" -> 1
      [] x.k = "ninf" -> -1
      [] OTHER -> IF x.n > 0 THEN 1 ELSE IF x.n < 0 THEN -1 ELSE 0

SignedInf(s) == IF s = 0 THEN NaN ELSE IF s > 0 THEN PosInf ELSE NegInf

JsMul(a, b) ==
    LET x == ToNumber(a)
        y == ToNumber(b)
    IN  IF x.k = "nan" \/ y.k = "nan" THEN NaN
        ELSE IF IsNum(x) /\ IsNum(y)
        THEN LET g1 == Gcd(Abs(x.n), y.d)
                 g2 == Gcd(Abs(y.n), x.d)
             IN  Rat((x.n \div g1) * (y.n \div g2), (x.d \div g2) * (y.d \div g1))
        ELSE SignedInf(Sign(x) * Sign(y))

JsDiv(a, b) ==
    LET x == ToNumber(a)
        y == ToNumber(b)
    IN  IF x.k = "nan" \/ y.k = "nan" THEN NaN
        ELSE IF IsNum(x) /\ IsNum(y)
        THEN IF y.n = 0 THEN SignedInf(Sign(x))
             ELSE JsMul(x, Rat(y.d, y.n))
        ELSE IF IsNum(y) THEN SignedInf(Sign(x) * (IF y.n < 0 THEN -1 ELSE 1))
        ELSE IF IsNum(x) THEN Num(0)
        ELSE NaN

MathCeil(a) ==
    LET x == ToNumber(a)
    IN  IF IsNum(x) THEN Num(-((-x.n) \div x.d)) ELSE x

\* Math.round: the nearest integer, a half rounded up
MathRound(a) ==
    LET x == ToNumber(a)
    IN  IF IsNum(x) THEN Num((2 * x.n + x.d) \div (2 * x.d)) ELSE x

\* ------------------------------------------------------------------------
\* The calculation (the body of the "Calculations" effect)
\* ------------------------------------------------------------------------

Fields ==
    {"yearlyIntegrationCost", "monthlySalary", "companySize", "hoursPerWeek",
     "errorCorrectionHours"}

sanitizedInputs(in) ==
    [yearlyIntegrationCost |->
         MathMax(Num(0), MathMin(Num(25000), OrElse(in.yearlyIntegrationCost, Num(0)))),
     monthlySalary |->
         MathMax(Num(10000), MathMin(Num(500000), OrElse(in.monthlySalary, Num(0)))),
     companySize |->
         MathMax(Num(70), MathMin(Num(2000), OrElse(in.companySize, Num(70)))),
     hoursPerWeek |->
         MathMax(Num(1), MathMin(Num(40), OrElse(in.hoursPerWeek, Num(0)))),
     errorCorrectionHours |->
         MathMax(Num(0), MathMin(Num(20), OrElse(in.errorCorrectionHours, Num(0))))]

\* mutant: Math.floor instead of Math.ceil
hrCountFloor(s) ==
    LET q == JsDiv(s.companySize, Num(70))
    IN  IF IsNum(q) THEN Num(q.n \div q.d) ELSE q

hrCount(s) == MathCeil(JsDiv(s.companySize, Num(70)))

hourlyRate(s) == JsDiv(s.monthlySalary, Num(160))

annualHoursPerHR(s) ==
    JsAdd(JsMul(s.hoursPerWeek, Num(52)), JsMul(s.errorCorrectionHours, Num(12)))

totalAnnualHours(s) == JsMul(annualHoursPerHR(s), hrCount(s))

manualAnnualCost(s) == JsMul(totalAnnualHours(s), hourlyRate(s))

apiFirstYearCost(s) == s.yearlyIntegrationCost

manual3Year(s) == JsMul(manualAnnualCost(s), Num(3))

\* mutant: the integration cost counted once over the three years
api3YearOneTime(s) == s.yearlyIntegrationCost

api3Year(s) == JsMul(s.yearlyIntegrationCost, Num(3))

year1Returns(s) == MathMax(Num(0), JsSub(manualAnnualCost(s), apiFirstYearCost(s)))

savings3Year(s) == MathMax(Num(0), JsSub(manual3Year(s), api3Year(s)))

\* mutant: the division without its guard
roiPercentUnguarded(s) ==
    MathMax(Num(0), JsMul(JsDiv(year1Returns(s), apiFirstYearCost(s)), Num(100)))

roiPercent(s) ==
    IF JsGt(apiFirstYearCost(s), Num(0))
    THEN MathMax(Num(0), JsMul(JsDiv(year1Returns(s), apiFirstYearCost(s)), Num(100)))
    ELSE Num(0)

monthlyManualCost(s) == JsDiv(manualAnnualCost(s), Num(12))

\* mutant: the integration cost over the yearly manual cost (years, not months)
breakevenMonthsInYears(s) ==
    IF JsGt(monthlyManualCost(s), Num(0))
    THEN JsDiv(s.yearlyIntegrationCost, manualAnnualCost(s))
    ELSE Num(0)

breakevenMonths(s) ==
    IF JsGt(monthlyManualCost(s), Num(0))
    THEN JsDiv(s.yearlyIntegrationCost, monthlyManualCost(s))
    ELSE Num(0)

\* the record the effect passes to setResults, from the inputs of the render
CalcResults(in) ==
    LET s == sanitizedInputs(in)
    IN  [manualAnnualCost |-> manualAnnualCost(s),
         apiFirstYearCost |-> apiFirstYearCost(s),
         savings3Year |-> savings3Year(s),
         breakevenMonths |-> breakevenMonths(s),
         roiPercent |-> roiPercent(s),
         hrCount |-> hrCount(s)]

\* useState<Inputs>, useState<Results>, useState<Config>: the initial values
DefaultInputs ==
    [shape |-> "object",
     yearlyIntegrationCost |-> Num(5000),
     monthlySalary |-> Num(50000),
     companySize |-> Num(280),
     hoursPerWeek |-> Num(4),
     errorCorrectionHours |-> Num(2)]

InitialResults ==
    [manualAnnualCost |-> Num(0), apiFirstYearCost |-> Num(0), savings3Year |-> Num(0),
     breakevenMonths |-> Num(0), roiPercent |-> Num(0), hrCount |-> Num(0)]

DefaultConfig ==
    [shape |-> "object", currency |-> "INR", themeColor |-> "#3b6ff7", logoUrl |-> "null"]

\* ------------------------------------------------------------------------
\* JSON and local storage
\* ------------------------------------------------------------------------
\* A stored text is [t, v]: t = "absent" (getItem gives null), "malformed"
\* (not JSON), "null", "prim" (the JSON of a number, a string or an array) or
\* "object" with the members v.  A member is a value record whose kind is
\* "missing" (no such key), "null", "num", "str", or "big"/"negbig" for a
\* number literal beyond the double range (1e999, -1e999).

Missing == [k |-> "missing", n |-> 0, d |-> 1]

Big == [k |-> "big", n |-> 0, d |-> 1]

NegBig == [k |-> "negbig", n |-> 0, d |-> 1]

ParseMember(m) ==
    CASE m.k = "missing" -> Undefined
      [] m.k = "big" -> PosInf
      [] m.k = "negbig" -> NegInf
      [] OTHER -> m

StringifyMember(v) ==
    CASE v.k = "undef" -> Missing
      [] v.k \in {"nan", "inf", "ninf"} -> Null
      [] OTHER -> v

NoMembers == [f \in Fields |-> Missing]

AbsentText == [t |-> "absent", v |-> NoMembers]

MalformedText == [t |-> "malformed", v |-> NoMembers]

\* JSON.parse of a stored inputs text that is JSON (t is not absent/malformed)
ParseInputs(text) ==
    [shape |-> text.t,
     yearlyIntegrationCost |-> ParseMember(text.v.yearlyIntegrationCost),
     monthlySalary |-> ParseMember(text.v.monthlySalary),
     companySize |-> ParseMember(text.v.companySize),
     hoursPerWeek |-> ParseMember(text.v.hoursPerWeek),
     errorCorrectionHours |-> ParseMember(text.v.errorCorrectionHours)]

\* JSON.stringify(inputs)
StringifyInputs(in) ==
    [t |-> in.shape,
     v |-> IF in.shape = "object"
           THEN [f \in Fields |-> StringifyMember(in[f])]
           ELSE NoMembers]

NoConfigMembers == [currency |-> "", themeColor |-> "", logoUrl |-> ""]

AbsentConfigText == [t |-> "absent", v |-> NoConfigMembers]

MalformedConfigText == [t |-> "malformed", v |-> NoConfigMembers]

ParseConfig(text) ==
    [shape |-> text.t, currency |-> text.v.currency,
     themeColor |-> text.v.themeColor, logoUrl |-> text.v.logoUrl]

StringifyConfig(c) ==
    [t |-> c.shape,
     v |-> IF c.shape = "object"
           THEN [currency |-> c.currency, themeColor |-> c.themeColor, logoUrl |-> c.logoUrl]
           ELSE NoConfigMembers]

\* ------------------------------------------------------------------------
\* State
\* ------------------------------------------------------------------------
\* config, inputs, results: the values held by the three useState hooks of App
\*     (what the next render will read).
\* view: the values the last completed render of App read; the effects and
\*     event handlers created by that render close over them.
\* changed: the hooks whose setter was called since the last render.
\* effects: the effects of the current commit still to run, in source order.
\* crashed: a render threw (the tree is unmounted).
\* storage: window.localStorage, the texts under 'roi_config' and 'roi_inputs'.
\* storageFull: localStorage.setItem throws (quota exceeded, storage disabled).
VARIABLES config, inputs, results, view, changed, effects, crashed, storage, storageFull

\* isEditingConfig, isHowItWorksOpen: the Customize and How It Works modals
\*     are open.
\* reader: the FileReader of the logo input while it reads the file, with
\*     the config its onloadend callback has closed over.
VARIABLES isEditingConfig, isHowItWorksOpen, reader

modalVars == <<isEditingConfig, isHowItWorksOpen, reader>>

\* The CountUp of the card '3-Year Net Savings':
\* count: its state, the number it displays.
\* end: the prop it was last rendered with.
\* frames: the callbacks requestAnimationFrame holds, in the order of the
\*     requests; started: the animation has set its startTime; elapsed: the
\*     time since then; first: the request is the one whose id the effect
\*     cleanup cancels.
VARIABLES count, end, frames

countUpVars == <<count, end, frames>>

pageVars == <<config, inputs, results, view, changed, effects, crashed, storage, storageFull>>

vars == <<pageVars, modalVars, countUpVars>>

\* const animationId = requestAnimationFrame(animate), for the prop end
FirstRequest(e) == [end |-> e, started |-> FALSE, elapsed |-> 0, first |-> TRUE]

\* no file is being read
NoReader == [reading |-> FALSE, config |-> [shape |-> "none"], result |-> "null"]

\* the InputGroup props min and max of each field
PropMin(f) ==
    CASE f = "yearlyIntegrationCost" -> Num(0)
      [] f = "monthlySalary" -> Num(10000)
      [] f = "companySize" -> Num(70)
      [] f = "hoursPerWeek" -> Num(1)
      [] f = "errorCorrectionHours" -> Num(0)

PropMax(f) ==
    CASE f = "yearlyIntegrationCost" -> Num(25000)
      [] f = "monthlySalary" -> Num(500000)
      [] f = "companySize" -> Num(2000)
      [] f = "hoursPerWeek" -> Num(40)
      [] f = "errorCorrectionHours" -> Num(20)

\* ------------------------------------------------------------------------
\* Effects and render
\* ------------------------------------------------------------------------

\* mutant: the load without its try/catch (a parse error unmounts the tree)
LoadSavedStateUncaught ==
    /\ ~crashed
    /\ effects # <<>>
    /\ Head(effects) = "load"
    /\ LET savedConfig == storage.roi_config
           savedInputs == storage.roi_inputs
           configThrows == savedConfig.t = "malformed"
           inputsThrows == ~configThrows /\ savedInputs.t = "malformed"
           setsConfig == savedConfig.t \notin {"absent", "malformed"}
           setsInputs == ~configThrows /\ savedInputs.t \notin {"absent", "malformed"}
       IN  /\ config' = IF setsConfig THEN ParseConfig(savedConfig) ELSE config
           /\ inputs' = IF setsInputs THEN ParseInputs(savedInputs) ELSE inputs
           /\ changed' = changed \cup (IF setsConfig THEN {"config"} ELSE {})
                                 \cup (IF setsInputs THEN {"inputs"} ELSE {})
           /\ crashed' = (configThrows \/ inputsThrows)
    /\ effects' = Tail(effects)
    /\ UNCHANGED <<results, view, storage, storageFull, modalVars, countUpVars>>

\* mutant: each key parsed in a try block of its own
LoadSavedStateSeparately ==
    /\ ~crashed
    /\ effects # <<>>
    /\ Head(effects) = "load"
    /\ LET savedConfig == storage.roi_config
           savedInputs == storage.roi_inputs
           setsConfig == savedConfig.t \notin {"absent", "malformed"}
           setsInputs == savedInputs.t \notin {"absent", "malformed"}
       IN  /\ config' = IF setsConfig THEN ParseConfig(savedConfig) ELSE config
           /\ inputs' = IF setsInputs THEN ParseInputs(savedInputs) ELSE inputs
           /\ changed' = changed \cup (IF setsConfig THEN {"config"} ELSE {})
                                 \cup (IF setsInputs THEN {"inputs"} ELSE {})
    /\ effects' = Tail(effects)
    /\ UNCHANGED <<results, view, crashed, storage, storageFull, modalVars, countUpVars>>

\* useEffect(..., []) "Load saved state on mount": one try block, config first
LoadSavedState ==
    /\ ~crashed
    /\ effects # <<>>
    /\ Head(effects) = "load"
    /\ LET savedConfig == storage.roi_config
           savedInputs == storage.roi_inputs
           configThrows == savedConfig.t = "malformed"
           setsConfig == savedConfig.t \notin {"absent", "malformed"}
           setsInputs == ~configThrows /\ savedInputs.t \notin {"absent", "malformed"}
       IN  /\ config' = IF setsConfig THEN ParseConfig(savedConfig) ELSE config
           /\ inputs' = IF setsInputs THEN ParseInputs(savedInputs) ELSE inputs
           /\ changed' = changed \cup (IF setsConfig THEN {"config"} ELSE {})
                                 \cup (IF setsInputs THEN {"inputs"} ELSE {})
    /\ effects' = Tail(effects)
    /\ UNCHANGED <<results, view, crashed, storage, storageFull, modalVars, countUpVars>>

\* useEffect(..., [config]) "Save config on changes"
SaveConfig ==
    /\ ~crashed
    /\ effects # <<>>
    /\ Head(effects) = "saveConfig"
    /\ storage' = IF storageFull THEN storage
                  ELSE [storage EXCEPT !.roi_config = StringifyConfig(view.config)]
    /\ effects' = Tail(effects)
    /\ UNCHANGED <<config, inputs, results, view, changed, crashed,
                   storageFull, modalVars, countUpVars>>

\* useEffect(..., [inputs]) "Save inputs on changes"
SaveInputs ==
    /\ ~crashed
    /\ effects # <<>>
    /\ Head(effects) = "saveInputs"
    /\ storage' = IF storageFull THEN storage
                  ELSE [storage EXCEPT !.roi_inputs = StringifyInputs(view.inputs)]
    /\ effects' = Tail(effects)
    /\ UNCHANGED <<config, inputs, results, view, changed, crashed,
                   storageFull, modalVars, countUpVars>>

\* mutant: the salary is converted when the config's currency is not the
\* rupee
CalculationsByCurrency ==
    /\ ~crashed
    /\ effects # <<>>
    /\ Head(effects) = "calc"
    /\ results' = CalcResults(IF view.config.currency = "USD"
                              THEN [view.inputs EXCEPT !.monthlySalary = JsDiv(@, Num(80))]
                              ELSE view.inputs)
    /\ changed' = changed \cup {"results"}
    /\ effects' = Tail(effects)
    /\ UNCHANGED <<config, inputs, view, crashed, storage, storageFull, modalVars, countUpVars>>

\* useEffect(..., [the five fields]) "Calculations"
Calculations ==
    /\ ~crashed
    /\ effects # <<>>
    /\ Head(effects) = "calc"
    /\ results' = CalcResults(view.inputs)
    /\ changed' = changed \cup {"results"}
    /\ effects' = Tail(effects)
    /\ UNCHANGED <<config, inputs, view, crashed, storage, storageFull, modalVars, countUpVars>>

\* mutant: the save effects have an empty dependency list (they run on mount
\* only)
ChangedEffectsNoSave ==
    IF \E f \in Fields : inputs[f] # view.inputs[f] THEN <<"calc">> ELSE <<>>

\* the effects whose dependencies differ from those of the previous render
ChangedEffects ==
    (IF "config" \in changed THEN <<"saveConfig">> ELSE <<>>)
    \o (IF "inputs" \in changed THEN <<"saveInputs">> ELSE <<>>)
    \o (IF \E f \in Fields : inputs[f] # view.inputs[f] THEN <<"calc">> ELSE <<>>)

\* reading a property of null throws: inputs.yearlyIntegrationCost in the
\* dependency list, config.themeColor in the theme styles
RenderThrows == inputs.shape = "null" \/ config.shape = "null"

\* App is rendered again after its state was set, and the render is committed
Render ==
    /\ ~crashed
    /\ effects = <<>>
    /\ changed # {}
    /\ IF RenderThrows
       THEN /\ crashed' = TRUE
            /\ UNCHANGED <<view, effects>>
       ELSE /\ view' = [config |-> config, inputs |-> inputs, results |-> results]
            /\ effects' = ChangedEffects
            /\ UNCHANGED crashed
    /\ changed' = {}
    /\ UNCHANGED <<config, inputs, results, storage, storageFull, modalVars, countUpVars>>

\* ------------------------------------------------------------------------
\* Event handlers
\* ------------------------------------------------------------------------

Idle == ~crashed /\ effects = <<>> /\ changed = {}

\* mutant: the hours are recomputed only while they still hold the value
\* computed for the previous size
handleCompanySizeChangeKeepOverride(newSize) ==
    LET newHours == MathCeil(JsDiv(newSize, Num(70)))
        untouched == inputs.hoursPerWeek = MathCeil(JsDiv(inputs.companySize, Num(70)))
    IN  inputs' = [inputs EXCEPT !.shape = "object",
                                 !.companySize = newSize,
                                 !.hoursPerWeek = IF untouched THEN newHours ELSE @]

handleCompanySizeChange(newSize) ==
    LET newHours == MathCeil(JsDiv(newSize, Num(70)))
    IN  inputs' = [inputs EXCEPT !.shape = "object",
                                 !.companySize = newSize,
                                 !.hoursPerWeek = newHours]

\* mutant: the hours control pushes back into the company size (70
\* employees per weekly hour)
OnChangeLinked(f, val) ==
    /\ IF f = "companySize"
       THEN handleCompanySizeChange(val)
       ELSE IF f = "hoursPerWeek"
       THEN inputs' = [view.inputs EXCEPT !.shape = "object", ![f] = val,
                                          !.companySize = JsMul(val, Num(70))]
       ELSE inputs' = [view.inputs EXCEPT !.shape = "object", ![f] = val]
    /\ changed' = changed \cup {"inputs"}
    /\ UNCHANGED <<config, results, view, effects, crashed, storage,
                   storageFull, modalVars, countUpVars>>

\* the onChange prop of the InputGroup of field f
OnChange(f, val) ==
    /\ IF f = "companySize"
       THEN handleCompanySizeChange(val)
       ELSE inputs' = [view.inputs EXCEPT !.shape = "object", ![f] = val]
    /\ changed' = changed \cup {"inputs"}
    /\ UNCHANGED <<config, results, view, effects, crashed, storage,
                   storageFull, modalVars, countUpVars>>

\* parseFloat of the text of an <input>: a number, or NaN for an empty or
\* non-numeric text
ParseFloat(text) == IF text.k = "num" THEN text ELSE NaN

\* positions the range input of field f can be dragged to (inside [min, max],
\* on the step grid)
SliderValues(f) ==
    CASE f = "yearlyIntegrationCost" -> {Num(0)}
      [] f = "monthlySalary" -> {Num(20000)}
      [] f = "companySize" -> {Num(70)}
      [] f = "hoursPerWeek" -> {Num(40)}
      [] f = "errorCorrectionHours" -> {Num(0)}

\* texts typed in the number field of field f
TypedTexts(f) ==
    CASE f = "yearlyIntegrationCost" -> {Str, Num(30000)}
      [] f = "monthlySalary" -> {Str}
      [] f = "companySize" -> {Str, Num(141), Num(3000)}
      [] f = "hoursPerWeek" -> {Str}
      [] f = "errorCorrectionHours" -> {Str, Num(25)}

\* <input type="range" onChange={(e) => onChange(parseFloat(e.target.value))}>
InputGroupSlider(f) ==
    /\ Idle
    /\ \E val \in SliderValues(f) : OnChange(f, ParseFloat(val))

SliderChange == \E f \in Fields : InputGroupSlider(f)

\* mutant: handleManualChange without its isNaN test
InputGroupNumberUnchecked(f) ==
    /\ Idle
    /\ \E text \in TypedTexts(f) :
          LET val == ParseFloat(text)
              constrainedVal == MathMax(PropMin(f), MathMin(PropMax(f), val))
          IN  OnChange(f, constrainedVal)

\* InputGroup.handleManualChange of the number field of field f
InputGroupNumber(f) ==
    /\ Idle
    /\ \E text \in TypedTexts(f) :
          LET val == ParseFloat(text)
              constrainedVal == MathMax(PropMin(f), MathMin(PropMax(f), val))
          IN  IF val.k # "nan"
              THEN OnChange(f, constrainedVal)
              ELSE UNCHANGED vars

handleManualChange == \E f \in Fields : InputGroupNumber(f)

\* ------------------------------------------------------------------------
\* Initial states: App has rendered once with the defaults, the effects of
\* the mount are pending, and local storage holds what an earlier visit, an
\* earlier revision or anything else of the origin left there.
\* ------------------------------------------------------------------------

\* ------------------------------------------------------------------------
\* The Customize modal and the How It Works modal
\* ------------------------------------------------------------------------

\* setConfig(next) in an event handler or callback
SetConfig(next) ==
    /\ config' = next
    /\ changed' = changed \cup {"config"}
    /\ UNCHANGED <<inputs, results, view, effects, crashed, storage, storageFull>>
    /\ UNCHANGED countUpVars

\* setIsEditingConfig / setIsHowItWorksOpen: React renders again only when
\* the value differs
SetModal(open, value) ==
    /\ changed' = IF open = value THEN changed ELSE changed \cup {"modal"}
    /\ UNCHANGED <<config, inputs, results, view, effects, crashed, storage, storageFull>>
    /\ UNCHANGED countUpVars

\* the button 'Customize Theme' of the header
OpenCustomize ==
    /\ Idle
    /\ isEditingConfig' = TRUE
    /\ SetModal(isEditingConfig, TRUE)
    /\ UNCHANGED <<isHowItWorksOpen, reader>>

\* mutant: the button also clears the results to have them computed again
SaveAndRecalculateResets ==
    /\ Idle
    /\ isEditingConfig
    /\ isEditingConfig' = FALSE
    /\ results' = InitialResults
    /\ changed' = changed \cup {"modal", "results"}
    /\ UNCHANGED <<config, inputs, view, effects, crashed, storage, storageFull,
                   isHowItWorksOpen, reader, countUpVars>>

\* the button 'Save & Recalculate' of the Customize modal
SaveAndRecalculate ==
    /\ Idle
    /\ isEditingConfig
    /\ isEditingConfig' = FALSE
    /\ SetModal(isEditingConfig, FALSE)
    /\ UNCHANGED <<isHowItWorksOpen, reader>>

\* the buttons 'How It Works' of the header and of the hero
OpenHowItWorks ==
    /\ Idle
    /\ isHowItWorksOpen' = TRUE
    /\ SetModal(isHowItWorksOpen, TRUE)
    /\ UNCHANGED <<isEditingConfig, reader>>

\* the two close buttons of the How It Works modal
CloseHowItWorks ==
    /\ Idle
    /\ isHowItWorksOpen
    /\ isHowItWorksOpen' = FALSE
    /\ SetModal(isHowItWorksOpen, FALSE)
    /\ UNCHANGED <<isEditingConfig, reader>>

\* colours picked in the colour input
ColorValues == {"#10b981"}

\* the preset buttons that are clicked (two of the six)
PresetColors == {"#3b82f6", "#10b981"}

\* the currency buttons that are clicked
CurrencyButtons == {"INR", "USD"}

HexCharacters ==
    {"0", "1", "2", "3", "4", "5", "6", "7", "8", "9",
     "a", "b", "c", "d", "e", "f", "A", "B", "C", "D", "E", "F"}

\* texts typed in the HEX field, as their characters
HexTexts == {<<"a", "b", "c">>, <<"x", "y", "z">>}

\* /^[0-9A-Fa-f]{0,6}$/.test(val)
HexTest(val) == Len(val) <= 6 /\ \A i \in 1..Len(val) : val[i] \in HexCharacters

RECURSIVE TextOf(_)
\* the string of the characters
TextOf(val) == IF val = <<>> THEN "" ELSE Head(val) \o TextOf(Tail(val))

\* the colour input of the Customize modal
ThemeColorInput ==
    /\ Idle
    /\ isEditingConfig
    /\ \E c \in ColorValues : SetConfig([view.config EXCEPT !.themeColor = c])
    /\ UNCHANGED modalVars

\* the HEX text field
ThemeHexInput ==
    /\ Idle
    /\ isEditingConfig
    /\ \E val \in HexTexts :
          IF HexTest(val)
          THEN /\ SetConfig([view.config EXCEPT !.themeColor = "#" \o TextOf(val)])
               /\ UNCHANGED modalVars
          ELSE UNCHANGED vars

\* a preset colour button
ThemePreset ==
    /\ Idle
    /\ isEditingConfig
    /\ \E c \in PresetColors : SetConfig([view.config EXCEPT !.themeColor = c])
    /\ UNCHANGED modalVars

\* a currency button
CurrencyButton ==
    /\ Idle
    /\ isEditingConfig
    /\ \E curr \in CurrencyButtons : SetConfig([view.config EXCEPT !.currency = curr])
    /\ UNCHANGED modalVars

\* the data URL the FileReader produces
ReaderResults == {"data:upload"}

\* the file input: with a file chosen a FileReader starts reading it; its
\* onloadend closes over the config of this render.  One file is read at a
\* time.
LogoFileChange ==
    /\ Idle
    /\ isEditingConfig
    /\ ~reader.reading
    /\ \E file \in BOOLEAN :
          IF file
          THEN /\ \E url \in ReaderResults :
                     reader' = [reading |-> TRUE, config |-> view.config, result |-> url]
               /\ UNCHANGED <<pageVars, isEditingConfig, isHowItWorksOpen, countUpVars>>
          ELSE UNCHANGED vars

\* reader.onloadend: the file has been read
ReaderOnLoadEnd ==
    /\ Idle
    /\ reader.reading
    /\ SetConfig([reader.config EXCEPT !.logoUrl = reader.result])
    /\ reader' = NoReader
    /\ UNCHANGED <<isEditingConfig, isHowItWorksOpen>>

\* the button 'Remove Logo', shown while there is a logo
RemoveLogo ==
    /\ Idle
    /\ isEditingConfig
    /\ view.config.logoUrl # "null"
    /\ SetConfig([view.config EXCEPT !.logoUrl = "null"])
    /\ UNCHANGED modalVars

\* ------------------------------------------------------------------------
\* CountUp
\* ------------------------------------------------------------------------

\* duration={2500}, in units of 500 ms
duration == 5

\* the time between two animation frames, in the same units
FrameDeltas == {2, 3}

\* values of results.savings3Year the card is rendered with
Ends == {0, 625, 1250}

\* the callback animate for one request, delta after the frame before
Animate(r, delta) ==
    IF r.started
    THEN [r EXCEPT !.elapsed = IF r.elapsed + delta < duration THEN r.elapsed + delta
                               ELSE duration,
                   !.first = FALSE]
    ELSE [r EXCEPT !.started = TRUE, !.first = FALSE]

\* easeOutQuart * end with progress = elapsed / duration
EasedCount(r) == (r.end * (duration ^ 4 - (duration - r.elapsed) ^ 4)) \div (duration ^ 4)

\* progress < 1: the callback requests another frame
RequestsAgain(r) == r.elapsed < duration

\* the browser runs an animation frame: every callback requested runs, in
\* the order of the requests; the last setCount is the one rendered
AnimationFrame ==
    /\ frames # <<>>
    /\ \E delta \in FrameDeltas :
          LET ran == [i \in 1..Len(frames) |-> Animate(frames[i], delta)]
          IN  /\ count' = EasedCount(ran[Len(ran)])
              /\ frames' = SelectSeq(ran, RequestsAgain)
    /\ UNCHANGED <<pageVars, modalVars, end>>

NotFirst(r) == ~r.first

\* the card is rendered with another end: the cleanup of the effect runs
\* cancelAnimationFrame(animationId), the id of the first request, and the
\* effect requests the first frame of a new animation
EndChanges ==
    /\ \E e \in Ends \ {end} :
          /\ end' = e
          /\ frames' = Append(SelectSeq(frames, NotFirst), FirstRequest(e))
    /\ UNCHANGED <<pageVars, modalVars, count>>

Mounted ==
    /\ config = DefaultConfig
    /\ inputs = DefaultInputs
    /\ results = InitialResults
    /\ view = [config |-> DefaultConfig, inputs |-> DefaultInputs, results |-> InitialResults]
    /\ changed = {}
    /\ effects = <<"load", "saveConfig", "saveInputs", "calc">>
    /\ crashed = FALSE
    /\ isEditingConfig = FALSE
    /\ isHowItWorksOpen = FALSE
    /\ reader = NoReader
    /\ count = 0
    /\ end = 0
    /\ frames = <<FirstRequest(0)>>

CustomConfig ==
    [shape |-> "object", currency |-> "USD", themeColor |-> "#ff0000", logoUrl |-> "data:logo"]

ObjectText(members) == [t |-> "object", v |-> members]

\* the stored inputs of an earlier visit: in range, not the defaults
SavedMembers ==
    [yearlyIntegrationCost |-> Num(15000), monthlySalary |-> Num(20000),
     companySize |-> Num(70), hoursPerWeek |-> Num(1), errorCorrectionHours |-> Num(0)]

DefaultMembers == StringifyInputs(DefaultInputs).v

\* a stored member of field f that this revision of the widget did not write
ForeignMembers(f) ==
    CASE f = "yearlyIntegrationCost" -> {Missing, Num(30000)}
      [] f = "monthlySalary" -> {Str, Num(5000)}
      [] f = "companySize" -> {Missing, Big}
      [] f = "hoursPerWeek" -> {Num(50)}
      [] f = "errorCorrectionHours" -> {Null}

\* stored inputs objects: the saved record, and the defaults with one member
\* replaced by a foreign one
StoredObjects ==
    {SavedMembers}
    \cup {[DefaultMembers EXCEPT ![f] = m] : <<f, m>> \in UNION {{f} \X ForeignMembers(f) : f \in Fields}}

InputsTexts ==
    {AbsentText, MalformedText, [t |-> "null", v |-> NoMembers], [t |-> "prim", v |-> NoMembers]}
    \cup {ObjectText(m) : m \in StoredObjects}

ConfigTexts ==
    {AbsentConfigText, MalformedConfigText, [t |-> "null", v |-> NoConfigMembers],
     StringifyConfig(CustomConfig)}

Init ==
    /\ Mounted
    /\ storage \in [roi_config : ConfigTexts, roi_inputs : InputsTexts]
    /\ storageFull \in BOOLEAN

\* Stored inputs objects with any combination of members: what the mount and
\* the calculation make of every kind of stored value
MemberValues(f) ==
    CASE f = "yearlyIntegrationCost" ->
             {Missing, Str, Big, Num(0), Num(5000), Num(15000), Num(30000)}
      [] f = "monthlySalary" ->
             {Null, Str, Num(5000), Num(20000), Num(50000), Num(600000)}
      [] f = "companySize" ->
             {Missing, Str, NegBig, Num(70), Num(140), Num(141), Num(280), Num(700),
              Num(3000)}
      [] f = "hoursPerWeek" -> {Str, Num(1), Num(4), Num(50)}
      [] f = "errorCorrectionHours" -> {Str, Num(0), Num(2), Num(25)}

AnyObjects ==
    [yearlyIntegrationCost : MemberValues("yearlyIntegrationCost"),
     monthlySalary : MemberValues("monthlySalary"),
     companySize : MemberValues("companySize"),
     hoursPerWeek : MemberValues("hoursPerWeek"),
     errorCorrectionHours : MemberValues("errorCorrectionHours")]

MountInit ==
    /\ Mounted
    /\ storage \in [roi_config : {AbsentConfigText, StringifyConfig(CustomConfig)},
                    roi_inputs : {AbsentText, MalformedText, [t |-> "null", v |-> NoMembers],
                                  [t |-> "prim", v |-> NoMembers]}
                                 \cup {ObjectText(m) : m \in AnyObjects}]
    /\ storageFull = FALSE

Next ==
    \/ LoadSavedState
    \/ SaveConfig
    \/ SaveInputs
    \/ Calculations
    \/ Render
    \/ SliderChange
    \/ handleManualChange

Spec == Init /\ [][Next]_vars

\* the widget is mounted and nothing is edited
MountNext ==
    \/ LoadSavedState
    \/ SaveConfig
    \/ SaveInputs
    \/ Calculations
    \/ Render

MountSpec == MountInit /\ [][MountNext]_vars

\* Mounting over a record an earlier visit saved: records the controls can
\* produce (every field a number inside its range), next to every kind of
\* text under 'roi_config'.
ValidObjects ==
    [yearlyIntegrationCost : {Num(0), Num(15000)},
     monthlySalary : {Num(20000)},
     companySize : {Num(70), Num(141)},
     hoursPerWeek : {Num(1), Num(40)},
     errorCorrectionHours : {Num(0)}]

RestoreInit ==
    /\ Mounted
    /\ storage \in [roi_config : ConfigTexts, roi_inputs : {ObjectText(m) : m \in ValidObjects}]
    /\ storageFull \in BOOLEAN

RestoreSpec == RestoreInit /\ [][MountNext]_vars

\* The Customize modal over a mounted widget
ConfigInit ==
    /\ Mounted
    /\ storage \in [roi_config : {AbsentConfigText, StringifyConfig(CustomConfig)},
                    roi_inputs : {AbsentText, ObjectText(SavedMembers)}]
    /\ storageFull \in BOOLEAN

ConfigNext ==
    \/ LoadSavedState
    \/ SaveConfig
    \/ SaveInputs
    \/ Calculations
    \/ Render
    \/ OpenCustomize
    \/ SaveAndRecalculate
    \/ OpenHowItWorks
    \/ CloseHowItWorks
    \/ ThemeColorInput
    \/ ThemeHexInput
    \/ ThemePreset
    \/ CurrencyButton
    \/ LogoFileChange
    \/ ReaderOnLoadEnd
    \/ RemoveLogo

ConfigSpec == ConfigInit /\ [][ConfigNext]_vars

\* The CountUp of the savings card alone, on a page that stays as mounted
CountUpInit ==
    /\ Mounted
    /\ storage = [roi_config |-> AbsentConfigText, roi_inputs |-> AbsentText]
    /\ storageFull = FALSE

CountUpNext ==
    \/ AnimationFrame
    \/ EndChanges

CountUpSpec == CountUpInit /\ [][CountUpNext]_vars

\* ------------------------------------------------------------------------
\* The one-time-cost revision of the widget (src/unnamed/part_001): four
\* inputs (apiCost instead of yearlyIntegrationCost and companySize), the
\* integration cost counted once, no floor at zero, and a Calculations
\* effect that writes the sanitized record back into the inputs state.
\* It runs on the same state variables; its inputs and results records have
\* the fields of that revision.
\* ------------------------------------------------------------------------

OneTimeFields == {"apiCost", "monthlySalary", "hoursPerWeek", "errorCorrectionHours"}

OneTimeSanitizedInputs(in) ==
    [shape |-> "object",
     apiCost |-> MathMax(Num(0), MathMin(Num(5000000), OrElse(in.apiCost, Num(0)))),
     monthlySalary |->
         MathMax(Num(10000), MathMin(Num(500000), OrElse(in.monthlySalary, Num(0)))),
     hoursPerWeek |-> MathMax(Num(1), MathMin(Num(40), OrElse(in.hoursPerWeek, Num(0)))),
     errorCorrectionHours |->
         MathMax(Num(0), MathMin(Num(20), OrElse(in.errorCorrectionHours, Num(0))))]

OneTimeAnnualManualHours(s) ==
    JsAdd(JsMul(s.hoursPerWeek, Num(52)), JsMul(s.errorCorrectionHours, Num(12)))

\* each const of the effect is computed once and then used as a value
OneTimeManualAnnualCost(s) ==
    CHOOSE m \in {JsMul(annualManualHours, rate) :
                      annualManualHours \in {OneTimeAnnualManualHours(s)},
                      rate \in {hourlyRate(s)}} : TRUE

\* mutant: the savings floored at zero, as in the later revision
OneTimeSavings3YearFloored(m, c) == MathMax(Num(0), JsSub(JsMul(m, Num(3)), c))

\* manual3Year - api3Year, with api3Year = apiFirstYearCost
OneTimeSavings3Year(m, c) == JsSub(JsMul(m, Num(3)), c)

OneTimeYear1NetBenefit(m, c) == JsSub(m, c)

OneTimeRoiPercent(m, c) ==
    IF JsGt(c, Num(0))
    THEN JsMul(JsDiv(OneTimeYear1NetBenefit(m, c), c), Num(100))
    ELSE Num(0)

OneTimeBreakevenMonths(m, c) ==
    LET monthly == JsDiv(m, Num(12))
    IN  IF JsGt(monthly, Num(0)) THEN JsDiv(c, monthly) ELSE Num(0)

\* the record the effect passes to setResults, from the sanitized inputs s
OneTimeSetResults(s) ==
    CHOOSE r \in {[manualAnnualCost |-> m,
                   apiFirstYearCost |-> c,
                   savings3Year |-> OneTimeSavings3Year(m, c),
                   breakevenMonths |-> OneTimeBreakevenMonths(m, c),
                   roiPercent |-> OneTimeRoiPercent(m, c)] :
                      m \in {OneTimeManualAnnualCost(s)}, c \in {s.apiCost}} : TRUE

OneTimeCalcResults(in) ==
    CHOOSE r \in {OneTimeSetResults(s) : s \in {OneTimeSanitizedInputs(in)}} : TRUE

OneTimeDefaultInputs ==
    [shape |-> "object", apiCost |-> Num(0), monthlySalary |-> Num(50000),
     hoursPerWeek |-> Num(4), errorCorrectionHours |-> Num(2)]

OneTimeInitialResults ==
    [manualAnnualCost |-> Num(0), apiFirstYearCost |-> Num(0), savings3Year |-> Num(0),
     breakevenMonths |-> Num(0), roiPercent |-> Num(0)]

OneTimeNoMembers == [f \in OneTimeFields |-> Missing]

OneTimeParseInputs(text) ==
    [shape |-> text.t,
     apiCost |-> ParseMember(text.v.apiCost),
     monthlySalary |-> ParseMember(text.v.monthlySalary),
     hoursPerWeek |-> ParseMember(text.v.hoursPerWeek),
     errorCorrectionHours |-> ParseMember(text.v.errorCorrectionHours)]

OneTimeStringifyInputs(in) ==
    [t |-> in.shape,
     v |-> IF in.shape = "object"
           THEN [f \in OneTimeFields |-> StringifyMember(in[f])]
           ELSE OneTimeNoMembers]

OneTimeLoadSavedState ==
    /\ ~crashed
    /\ effects # <<>>
    /\ Head(effects) = "load"
    /\ LET savedConfig == storage.roi_config
           savedInputs == storage.roi_inputs
           configThrows == savedConfig.t = "malformed"
           setsConfig == savedConfig.t \notin {"absent", "malformed"}
           setsInputs == ~configThrows /\ savedInputs.t \notin {"absent", "malformed"}
       IN  /\ config' = IF setsConfig THEN ParseConfig(savedConfig) ELSE config
           /\ inputs' = IF setsInputs THEN OneTimeParseInputs(savedInputs) ELSE inputs
           /\ changed' = changed \cup (IF setsConfig THEN {"config"} ELSE {})
                                 \cup (IF setsInputs THEN {"inputs"} ELSE {})
    /\ effects' = Tail(effects)
    /\ UNCHANGED <<results, view, crashed, storage, storageFull, modalVars, countUpVars>>

OneTimeSaveInputs ==
    /\ ~crashed
    /\ effects # <<>>
    /\ Head(effects) = "saveInputs"
    /\ storage' = IF storageFull THEN storage
                  ELSE [storage EXCEPT !.roi_inputs = OneTimeStringifyInputs(view.inputs)]
    /\ effects' = Tail(effects)
    /\ UNCHANGED <<config, inputs, results, view, changed, crashed,
                   storageFull, modalVars, countUpVars>>

\* the Calculations effect: setInputs(sanitizedInputs) replaces whatever an
\* earlier effect of the same commit has set, then setResults
OneTimeCalculations ==
    /\ ~crashed
    /\ effects # <<>>
    /\ Head(effects) = "calc"
    /\ \E s \in {OneTimeSanitizedInputs(view.inputs)} :
          /\ inputs' = s
          /\ results' = OneTimeSetResults(s)
    /\ changed' = changed \cup {"inputs", "results"}
    /\ effects' = Tail(effects)
    /\ UNCHANGED <<config, view, crashed, storage, storageFull, modalVars, countUpVars>>

\* mutant: the Calculations effect depends on the inputs object
OneTimeChangedEffectsByIdentity ==
    (IF "config" \in changed THEN <<"saveConfig">> ELSE <<>>)
    \o (IF "inputs" \in changed THEN <<"saveInputs", "calc">> ELSE <<>>)

\* the effects whose dependencies differ from those of the previous render
OneTimeChangedEffects ==
    (IF "config" \in changed THEN <<"saveConfig">> ELSE <<>>)
    \o (IF "inputs" \in changed THEN <<"saveInputs">> ELSE <<>>)
    \o (IF \E f \in OneTimeFields : inputs[f] # view.inputs[f] THEN <<"calc">> ELSE <<>>)

OneTimeRender ==
    /\ ~crashed
    /\ effects = <<>>
    /\ changed # {}
    /\ IF RenderThrows
       THEN /\ crashed' = TRUE
            /\ UNCHANGED <<view, effects>>
       ELSE /\ view' = [config |-> config, inputs |-> inputs, results |-> results]
            /\ effects' = OneTimeChangedEffects
            /\ UNCHANGED crashed
    /\ changed' = {}
    /\ UNCHANGED <<config, inputs, results, storage, storageFull, modalVars, countUpVars>>

OneTimePropMin(f) ==
    CASE f = "apiCost" -> Num(0)
      [] f = "monthlySalary" -> Num(10000)
      [] f = "hoursPerWeek" -> Num(1)
      [] f = "errorCorrectionHours" -> Num(0)

OneTimePropMax(f) ==
    CASE f = "apiCost" -> Num(5000000)
      [] f = "monthlySalary" -> Num(500000)
      [] f = "hoursPerWeek" -> Num(40)
      [] f = "errorCorrectionHours" -> Num(20)

OneTimeOnChange(f, val) ==
    /\ inputs' = [view.inputs EXCEPT !.shape = "object", ![f] = val]
    /\ changed' = changed \cup {"inputs"}
    /\ UNCHANGED <<config, results, view, effects, crashed, storage,
                   storageFull, modalVars, countUpVars>>

\* positions of the range inputs (the hours slider has step 0.5)
OneTimeSliderValues(f) ==
    CASE f = "apiCost" -> {Num(50000)}
      [] f = "monthlySalary" -> {Num(20000)}
      [] f = "hoursPerWeek" -> {Rat(3, 2)}
      [] f = "errorCorrectionHours" -> {Num(0)}

\* texts typed in the number fields
OneTimeTypedTexts(f) ==
    CASE f = "apiCost" -> {Str, Num(6000000)}
      [] f = "monthlySalary" -> {Str}
      [] f = "hoursPerWeek" -> {Str}
      [] f = "errorCorrectionHours" -> {Str, Num(25)}

OneTimeSliderChange ==
    /\ Idle
    /\ \E f \in OneTimeFields : \E val \in OneTimeSliderValues(f) :
          OneTimeOnChange(f, ParseFloat(val))

OneTimeHandleManualChange ==
    /\ Idle
    /\ \E f \in OneTimeFields : \E text \in OneTimeTypedTexts(f) :
          LET val == ParseFloat(text)
              constrainedVal == MathMax(OneTimePropMin(f), MathMin(OneTimePropMax(f), val))
          IN  IF val.k # "nan"
              THEN OneTimeOnChange(f, constrainedVal)
              ELSE UNCHANGED vars

\* stored inputs objects of that revision: saved, out of range, not numbers
OneTimeStoredObjects ==
    {[apiCost |-> Num(50000), monthlySalary |-> Num(20000),
      hoursPerWeek |-> Num(4), errorCorrectionHours |-> Num(2)],
     [apiCost |-> Num(6000000), monthlySalary |-> Num(5000),
      hoursPerWeek |-> Missing, errorCorrectionHours |-> Null],
     [apiCost |-> Str, monthlySalary |-> Num(50000),
      hoursPerWeek |-> Num(50), errorCorrectionHours |-> Num(2)]}

OneTimeInputsTexts ==
    {[t |-> k, v |-> OneTimeNoMembers] : k \in {"absent", "malformed", "null", "prim"}}
    \cup {ObjectText(m) : m \in OneTimeStoredObjects}

OneTimeInit ==
    /\ config = DefaultConfig
    /\ inputs = OneTimeDefaultInputs
    /\ results = OneTimeInitialResults
    /\ view = [config |-> DefaultConfig, inputs |-> OneTimeDefaultInputs,
               results |-> OneTimeInitialResults]
    /\ changed = {}
    /\ effects = <<"load", "saveConfig", "saveInputs", "calc">>
    /\ crashed = FALSE
    /\ isEditingConfig = FALSE
    /\ isHowItWorksOpen = FALSE
    /\ reader = NoReader
    /\ count = 0
    /\ end = 0
    /\ frames = <<FirstRequest(0)>>
    /\ storage \in [roi_config : {AbsentConfigText, StringifyConfig(CustomConfig)},
                    roi_inputs : OneTimeInputsTexts]
    /\ storageFull \in BOOLEAN

\* the effects and renders React has scheduled
OneTimeEffects ==
    \/ OneTimeLoadSavedState
    \/ SaveConfig
    \/ OneTimeSaveInputs
    \/ OneTimeCalculations
    \/ OneTimeRender

OneTimeNext ==
    \/ OneTimeEffects
    \/ OneTimeSliderChange
    \/ OneTimeHandleManualChange

OneTimeSpec == OneTimeInit /\ [][OneTimeNext]_vars

\* the KPI cards of that revision
OneTimeOneYearReturnsCard ==
    JsSub(view.results.manualAnnualCost, view.results.apiFirstYearCost)

OneTimeSavings3YearCard == view.results.savings3Year

OneTimeRoiCard == view.results.roiPercent

\* ------------------------------------------------------------------------
\* What the page shows (the benefit figures of the last render)
\* ------------------------------------------------------------------------

\* value prop of the KPICard "One Year Returns"
oneYearReturnsCard == JsSub(view.results.manualAnnualCost, view.results.apiFirstYearCost)

\* the first-year saving in the sentence of the CTA section
ctaFirstYearSaving == JsSub(view.results.manualAnnualCost, view.results.apiFirstYearCost)

\* end prop of the CountUp of the "3-Year Net Savings" card
savings3YearCard == view.results.savings3Year

\* value prop of the KPICard "Return on Investment"
roiCard == view.results.roiPercent

\* "Chart Data with Inflation Logic", from the results of the render
inflationRate == Rat(108, 100)

manualY1 == view.results.manualAnnualCost

manualY2 == JsMul(manualY1, inflationRate)

manualY3 == JsMul(manualY2, inflationRate)

cumulativeManualY1 == manualY1

cumulativeManualY2 == JsAdd(manualY1, manualY2)

cumulativeManualY3 == JsAdd(JsAdd(manualY1, manualY2), manualY3)

cumulativeApiY1 == view.results.apiFirstYearCost

\* mutant: the Year-2 point holds the cost of the second year, not the sum
chartDataPerYear ==
    <<[name |-> "Year 1", ManualProcess |-> MathRound(cumulativeManualY1),
       APIAutomation |-> MathRound(cumulativeApiY1)],
      [name |-> "Year 2", ManualProcess |-> MathRound(manualY2),
       APIAutomation |-> MathRound(cumulativeApiY1)],
      [name |-> "Year 3", ManualProcess |-> MathRound(cumulativeManualY3),
       APIAutomation |-> MathRound(cumulativeApiY1)]>>

\* the rows of the chart: 'Manual Process' and 'API Automation' per year
chartData ==
    <<[name |-> "Year 1", ManualProcess |-> MathRound(cumulativeManualY1),
       APIAutomation |-> MathRound(cumulativeApiY1)],
      [name |-> "Year 2", ManualProcess |-> MathRound(cumulativeManualY2),
       APIAutomation |-> MathRound(cumulativeApiY1)],
      [name |-> "Year 3", ManualProcess |-> MathRound(cumulativeManualY3),
       APIAutomation |-> MathRound(cumulativeApiY1)]>>

\* row "3-Year Total Cost of Ownership" of the comparison table: the numbers
\* the Manual and the API cell format with toLocaleString
tcoManualCell == JsMul(view.results.manualAnnualCost, Num(3))

tcoApiCell == view.results.apiFirstYearCost

\* ------------------------------------------------------------------------
\* Vocabulary of the properties
\* ------------------------------------------------------------------------

\* the documented range and fallback default of each field
RangeMin(f) ==
    CASE f = "yearlyIntegrationCost" -> 0
      [] f = "monthlySalary" -> 10000
      [] f = "companySize" -> 70
      [] f = "hoursPerWeek" -> 1
      [] f = "errorCorrectionHours" -> 0

RangeMax(f) ==
    CASE f = "yearlyIntegrationCost" -> 25000
      [] f = "monthlySalary" -> 500000
      [] f = "companySize" -> 2000
      [] f = "hoursPerWeek" -> 40
      [] f = "errorCorrectionHours" -> 20

FallbackDefault(f) == IF f = "companySize" THEN 70 ELSE 0

\* v is a finite number inside the range of f
InRange(f, v) ==
    /\ v.k = "num"
    /\ RangeMin(f) * v.d <= v.n
    /\ v.n <= RangeMax(f) * v.d

\* clamp(isFinite(raw) ? raw : fallbackDefault, min, max)
Clamped(f, raw) ==
    LET x == IF raw.k = "num" THEN raw ELSE Num(FallbackDefault(f))
    IN  IF x.n < RangeMin(f) * x.d THEN Num(RangeMin(f))
        ELSE IF x.n > RangeMax(f) * x.d THEN Num(RangeMax(f))
        ELSE x

\* v is a number >= 0
NonNegative(v) == v.k \in {"num", "inf"} /\ v.n >= 0

\* the Calculations effect has run on the inputs of the last render
CalcDone == ~crashed /\ \A i \in 1..Len(effects) : effects[i] # "calc"

\* the last render read the results of the calculation on its own inputs
Shown == CalcDone /\ view.results = results

ResultNames ==
    {"manualAnnualCost", "apiFirstYearCost", "savings3Year", "breakevenMonths",
     "roiPercent", "hrCount"}

ScenarioB(in) ==
    /\ in.monthlySalary = Num(20000)
    /\ in.hoursPerWeek = Num(1)
    /\ in.errorCorrectionHours = Num(0)
    /\ in.companySize = Num(70)
    /\ in.yearlyIntegrationCost = Num(15000)

\* ------------------------------------------------------------------------
\* Properties
\* ------------------------------------------------------------------------

\* C1: for every inputs record the Calculations effect has run on, Year-1
\* returns, 3-year savings and ROI are >= 0; on Scenario B (manual cost 6500,
\* integration cost 15000) all three are exactly 0.
C1_NonNegativeMetrics ==
    CalcDone =>
        LET s == sanitizedInputs(view.inputs)
        IN  /\ NonNegative(year1Returns(s))
            /\ NonNegative(results.savings3Year)
            /\ NonNegative(results.roiPercent)
            /\ ScenarioB(view.inputs) =>
                   /\ results.manualAnnualCost = Num(6500)
                   /\ year1Returns(s) = Num(0)
                   /\ results.savings3Year = Num(0)
                   /\ results.roiPercent = Num(0)

\* C2: whenever the page shows the results computed from in-range inputs,
\* every benefit figure it shows is >= 0.
C2_NoNegativeBenefitShown ==
    (Shown /\ \A f \in Fields : InRange(f, view.inputs[f])) =>
        /\ NonNegative(oneYearReturnsCard)
        /\ NonNegative(ctaFirstYearSaving)
        /\ NonNegative(savings3YearCard)
        /\ NonNegative(roiCard)

\* C3: for every raw inputs record, each sanitized field is a finite number
\* inside the range of the field and equals
\* clamp(isFinite(raw) ? raw : fallbackDefault, min, max).
C3_SanitizerTotal ==
    ~RenderThrows =>
        \A f \in Fields :
            /\ InRange(f, sanitizedInputs(inputs)[f])
            /\ sanitizedInputs(inputs)[f] = Clamped(f, inputs[f])

\* C4: whatever text is stored under 'roi_inputs', mounting raises no
\* uncaught error and no computed result is NaN.
C4_NoCrashNoNaN ==
    /\ config.shape # "null" => ~crashed
    /\ \A r \in ResultNames : results[r].k # "nan"

\* the sanitized inputs of the last render, when all of them are numbers
Sanitized == sanitizedInputs(view.inputs)

AllNumbers == \A f \in Fields : Sanitized[f].k = "num"

\* 3 * v
Times3(v) == IF v.k = "num" THEN Rat(3 * v.n, v.d) ELSE v

\* C5: whenever the sanitized yearly integration cost is 0, roiPercent is
\* exactly 0, Year-1 returns are the same value as manualAnnualCost and
\* savings3Year is 3 x manualAnnualCost.
C5_ZeroCostLimit ==
    (CalcDone /\ Sanitized.yearlyIntegrationCost = Num(0)) =>
        /\ results.roiPercent = Num(0)
        /\ year1Returns(Sanitized) = results.manualAnnualCost
        /\ results.savings3Year = Times3(results.manualAnnualCost)

\* the calculation has run with integration cost 0 and a positive manual cost
C5_Witness ==
    /\ CalcDone
    /\ Sanitized.yearlyIntegrationCost = Num(0)
    /\ results.manualAnnualCost = Num(72500)
    /\ results.savings3Year = Num(217500)

\* ceil(size / 70) for a number size in [70, 2000], as the least k with 70k >= size
StaffFor(size) == CHOOSE k \in 1..29 : 70 * k * size.d >= size.n /\ 70 * (k - 1) * size.d < size.n

\* (hoursPerWeek*52 + errorCorrectionHours*12) * staffCount, for numbers
ExpectedHours(s) ==
    Rat((s.hoursPerWeek.n * 52 * s.errorCorrectionHours.d
           + s.errorCorrectionHours.n * 12 * s.hoursPerWeek.d) * StaffFor(s.companySize),
        s.hoursPerWeek.d * s.errorCorrectionHours.d)

\* annual hours * (monthlySalary / 160)
ExpectedManual(s) ==
    LET rate == Rat(s.monthlySalary.n, 160 * s.monthlySalary.d)
        hours == ExpectedHours(s)
        g == Gcd(hours.n, rate.d)
    IN  Rat((hours.n \div g) * rate.n, hours.d * (rate.d \div g))

\* max(0, 3*m - 3*c)
ExpectedSavings3Year(m, c) ==
    IF m.n * c.d > c.n * m.d THEN Rat(3 * m.n * c.d - 3 * c.n * m.d, m.d * c.d) ELSE Num(0)

\* max(0, (m - c) / c * 100), c > 0
ExpectedRoi(m, c) ==
    IF m.n * c.d > c.n * m.d
    THEN LET q == Rat(m.n * c.d - c.n * m.d, c.n * m.d)
             g == Gcd(100, q.d)
         IN  Rat(q.n * (100 \div g), q.d \div g)
    ELSE Num(0)

ScenarioA(in) ==
    /\ in.monthlySalary = Num(50000)
    /\ in.hoursPerWeek = Num(4)
    /\ in.errorCorrectionHours = Num(2)
    /\ in.yearlyIntegrationCost = Num(5000)
    /\ in.companySize = Num(70)

C7_PublishedDefaults ==
    (CalcDone /\ view.inputs = DefaultInputs) =>
        /\ results.manualAnnualCost = Num(72500)
        /\ year1Returns(Sanitized) = Num(67500)
        /\ results.savings3Year = Num(202500)
        /\ results.roiPercent = Num(1350)

\* company sizes at and just above the multiples of 70
BoundarySizes == {70 * k : k \in 1..28} \cup {70 * k + 1 : k \in 1..28}

\* C8: for every sanitized companySize in [70, 2000], hrCount is
\* ceil(companySize/70), is >= 1 and is non-decreasing in companySize;
\* 70 -> 1, 140 -> 2, 141 -> 3, 280 -> 4, 700 -> 10.
C8_Headcount ==
    (CalcDone /\ InRange("companySize", Sanitized.companySize)) =>
        LET size == Sanitized.companySize
            h == results.hrCount
        IN  /\ h = Num(StaffFor(size))
            /\ h.n >= 1
            /\ \A other \in BoundarySizes :
                   LET ho == hrCount([companySize |-> Num(other)])
                   IN  /\ other * size.d <= size.n => ho.n <= h.n
                       /\ other * size.d >= size.n => ho.n >= h.n
            /\ size = Num(70) => h = Num(1)
            /\ size = Num(140) => h = Num(2)
            /\ size = Num(141) => h = Num(3)
            /\ size = Num(280) => h = Num(4)
            /\ size = Num(700) => h = Num(10)

\* the calculation has run on a company of 141 employees (3 HR)
C8_Witness == CalcDone /\ Sanitized.companySize = Num(141) /\ results.hrCount = Num(3)

\* C9: sanitizing a sanitized record gives the same record.
C9_ClampingIdempotent ==
    ~RenderThrows => sanitizedInputs(sanitizedInputs(inputs)) = sanitizedInputs(inputs)

\* an edit: a handler of a slider or number field sets the inputs
EditStep == Idle /\ "inputs" \in changed'

\* C10: after any edit every field of the inputs state lies inside its range
\* and equals its sanitized value.
C10_InputsInRangeAfterEdit ==
    [][EditStep =>
          \A f \in Fields :
              /\ InRange(f, inputs'[f])
              /\ inputs'[f] = sanitizedInputs(inputs')[f]]_vars

\* the user moves the slider or types in the number field of field f
ControlStep(f) == InputGroupSlider(f) \/ InputGroupNumber(f)

\* the fields no control but their own writes
OtherThanSizeAndHours == {"yearlyIntegrationCost", "monthlySalary", "errorCorrectionHours"}

\* C11: every change of companySize through the Company Size control writes
\* the new size (a number in [70, 2000]) and hoursPerWeek = ceil(newSize/70),
\* whatever hoursPerWeek was; the written hours lie in [1, 29]; the
\* integration cost, the salary and the error-correction hours are unchanged.
C11_SizeChangeOverwritesHours ==
    [][ControlStep("companySize") =>
          LET newSize == inputs'.companySize
              newHours == inputs'.hoursPerWeek
          IN  /\ InRange("companySize", newSize)
              /\ newHours = Num(StaffFor(newSize))
              /\ newHours.n >= 1 /\ newHours.n <= 29
              /\ InRange("hoursPerWeek", newHours)
              /\ \A f \in OtherThanSizeAndHours : inputs'[f] = inputs[f]]_vars

\* the size was just changed to 2000 (typed 3000, clamped) over hours the
\* user had set to 40 by hand: the render before the edit still shows the 40
C11_Witness ==
    /\ "inputs" \in changed
    /\ view.inputs.hoursPerWeek = Num(40)
    /\ view.inputs.companySize # Num(2000)
    /\ inputs.companySize = Num(2000)
    /\ inputs.hoursPerWeek = Num(29)

\* The hours were set by hand and the Company Size control has not
\* overwritten them since: 40 is a position of the hours slider, no company
\* size gives it (ceil(2000/70) = 29) and no stored record of the model
\* holds it.
HandSetHours == inputs.hoursPerWeek = Num(40)

\* C12 as claimed: once the user has set hoursPerWeek by hand, a later
\* change of the company size leaves that value in place.
C12_ManualOverrideRespected ==
    [][(ControlStep("companySize") /\ HandSetHours) =>
          inputs'.hoursPerWeek = inputs.hoursPerWeek]_vars

\* C12 amended: hours set by hand stay in place through every edit of
\* another control, and every edit of the Company Size control replaces
\* them by ceil(newSize/70).
C12_OverrideUntilSizeChange ==
    [][(EditStep /\ HandSetHours) =>
          IF ControlStep("companySize")
          THEN /\ inputs'.hoursPerWeek = Num(StaffFor(inputs'.companySize))
               /\ inputs'.hoursPerWeek # inputs.hoursPerWeek
          ELSE inputs'.hoursPerWeek = inputs.hoursPerWeek]_vars

\* hours set by hand were just replaced by the 3 of a company of 141
C12_Witness ==
    /\ "inputs" \in changed
    /\ view.inputs.hoursPerWeek = Num(40)
    /\ inputs.companySize = Num(141)
    /\ inputs.hoursPerWeek = Num(3)

\* the calculation has run on inputs whose hours are a number of the hours
\* range that is not the one the company size would give
OwnHours ==
    /\ CalcDone
    /\ AllNumbers
    /\ InRange("hoursPerWeek", view.inputs.hoursPerWeek)
    /\ InRange("companySize", Sanitized.companySize)
    /\ view.inputs.hoursPerWeek # Num(StaffFor(Sanitized.companySize))

\* C13: an edit of the hours, integration cost, salary or error-correction
\* control changes that one field only (the company size stays, and with it
\* the HR headcount), and the manual cost is computed from the hours held in
\* the inputs, not from ceil(companySize/70).
C13_OneDirectionalLink ==
    /\ [][\A f \in Fields \ {"companySize"} :
              ControlStep(f) =>
                  /\ \A g \in Fields \ {f} : inputs'[g] = inputs[g]
                  /\ hrCount(sanitizedInputs(inputs')) = hrCount(sanitizedInputs(inputs))]_vars
    /\ [](OwnHours =>
              /\ results.manualAnnualCost
                     = ExpectedManual([Sanitized EXCEPT !.hoursPerWeek = view.inputs.hoursPerWeek])
              /\ Sanitized.monthlySalary.n > 0 =>
                     results.manualAnnualCost
                         # ExpectedManual([Sanitized EXCEPT
                                             !.hoursPerWeek = Num(StaffFor(Sanitized.companySize))]))

\* the hours were set to 40 for a company of 280 (4 HR) and the manual cost
\* is (40*52 + 2*12) * 4 * 312.5
C13_Witness ==
    /\ CalcDone
    /\ view.inputs.companySize = Num(280)
    /\ view.inputs.hoursPerWeek = Num(40)
    /\ view.inputs.errorCorrectionHours = Num(2)
    /\ view.inputs.monthlySalary = Num(50000)
    /\ results.hrCount = Num(4)
    /\ results.manualAnnualCost = Num(2630000)

\* C14: in every state the widget has rendered (the first render after mount,
\* the render after an edit or after the load from storage) the results shown
\* are the metrics derived from the sanitized inputs shown.
C14_ResultsNeverLag == ~crashed => view.results = CalcResults(view.inputs)

\* the effects of the mount and the renders they scheduled have run
Settled == effects = <<>> /\ changed = {}

\* the load effect runs
LoadStep == effects # <<>> /\ Head(effects) = "load" /\ effects' = Tail(effects)

\* the text is the JSON of a record with every field a number in its range
ValidInputsText(text) == text.t = "object" /\ \A f \in Fields : InRange(f, text.v[f])

ValidConfigText(text) == text.t = "object"

\* C15: when 'roi_inputs' holds a valid saved record at mount, the load puts
\* that record in the inputs state and, once the mount effects and the render
\* they trigger have run, the widget is up with that record and 'roi_inputs'
\* holds it again; the same for the config saved under 'roi_config'.
C15_RestoreOnMount ==
    /\ [][LoadStep =>
              /\ ValidInputsText(storage.roi_inputs) =>
                     inputs' = ParseInputs(storage.roi_inputs)
              /\ ValidConfigText(storage.roi_config) =>
                     config' = ParseConfig(storage.roi_config)]_vars
    /\ [](Settled =>
              /\ ~crashed
              /\ inputs # DefaultInputs
              /\ storage.roi_inputs = StringifyInputs(inputs)
              /\ ValidInputsText(storage.roi_inputs)
              /\ ValidConfigText(storage.roi_config) =>
                     storage.roi_config = StringifyConfig(config))

\* C16: after any sequence of edits, once the pending effects and renders
\* have run and when setItem does not throw, the text under 'roi_inputs' is
\* the JSON of the current inputs state.
C16_StoredInputsCurrent ==
    (Idle /\ ~storageFull) => storage.roi_inputs = StringifyInputs(inputs)

\* the hours were set to 40 after a company-size edit and both are stored
C16_Witness ==
    /\ Idle
    /\ ~storageFull
    /\ inputs.companySize = Num(141)
    /\ inputs.hoursPerWeek = Num(40)
    /\ storage.roi_inputs.t = "object"
    /\ storage.roi_inputs.v.companySize = Num(141)
    /\ storage.roi_inputs.v.hoursPerWeek = Num(40)

\* a key of local storage holds text that is not JSON
MalformedStored == storage.roi_config.t = "malformed" \/ storage.roi_inputs.t = "malformed"

\* a save effect runs
SaveStep ==
    /\ effects # <<>>
    /\ Head(effects) \in {"saveConfig", "saveInputs"}
    /\ effects' = Tail(effects)

FiveFields == [f \in Fields |-> view.inputs[f]]

\* C18: the results are a function of the five input fields only: whenever
\* the calculation has run, the results are the ones those five values give,
\* whatever the config, the results before, and the contents of local
\* storage.
C18_Determinism == CalcDone => results = CalcResults(FiveFields)

\* the calculation has run again (over the results of the defaults) under a
\* loaded custom config and a storage that takes no write
C18_Witness ==
    /\ CalcDone
    /\ view.config = CustomConfig
    /\ storageFull
    /\ view.inputs.hoursPerWeek = Num(40)
    /\ view.results.manualAnnualCost = Num(290000)
    /\ results.manualAnnualCost = Num(2630000)

\* the last render shows the results of numbers
ShownNumbers == Shown /\ AllNumbers

\* C19: the cost of the automation over three years is 3 x the yearly
\* integration cost everywhere it is shown: in savings3Year, in the Year-3
\* 'API Automation' value of the chart and in the API cell of the row
\* '3-Year Total Cost of Ownership', so that the 3-Year Net Savings shown are
\* max(0, 3-year manual cost shown - 3-year API cost shown).
C19_OneCostModel ==
    ShownNumbers =>
        LET c == Sanitized.yearlyIntegrationCost
            m == view.results.manualAnnualCost
        IN  /\ savings3YearCard = ExpectedSavings3Year(m, c)
            /\ chartData[3].APIAutomation = MathRound(Times3(c))
            /\ tcoApiCell = Times3(c)
            /\ savings3YearCard = MathMax(Num(0), JsSub(tcoManualCell, tcoApiCell))

\* round(x * p / q) for a number x >= 0, a half rounded up
RoundOfShare(x, p, q) ==
    LET g == Gcd(x.n, q)
        n == (x.n \div g) * p
        d == x.d * (q \div g)
    IN  Num((2 * n + d) \div (2 * d))

ExpectedBreakeven(m, c) == Rat(12 * c.n * m.d, c.d * m.n)

\* C21: for all sanitized inputs (finite numbers) breakevenMonths is
\* yearlyIntegrationCost / (manualAnnualCost / 12); it is >= 0, is 0 exactly
\* when the integration cost is 0 and is < 12 exactly when the Year-1 savings
\* are > 0; manualAnnualCost is at least 3250, so the divisor is never 0.
C21_Breakeven ==
    (CalcDone /\ AllNumbers) =>
        LET m == ExpectedManual(Sanitized)
            c == Sanitized.yearlyIntegrationCost
            b == results.breakevenMonths
        IN  /\ m.n >= 3250 * m.d
            /\ JsGt(monthlyManualCost(Sanitized), Num(0))
            /\ b = ExpectedBreakeven(m, c)
            /\ b.k = "num" /\ b.n >= 0
            /\ (b.n = 0) <=> (c.n = 0)
            /\ (b.n < 12 * b.d) <=> (year1Returns(Sanitized).n > 0)

\* the calculation has run on Scenario A: 5000 / (72500 / 12) = 24/29 months
C21_Witness ==
    /\ CalcDone
    /\ ScenarioA(view.inputs)
    /\ results.breakevenMonths = Rat(24, 29)

\* C22: every change the number field of a control makes writes a typed
\* number clamped to [min, max] of the control, and leaves the results and
\* the stored 'roi_inputs' as they were; a text that is not a number changes
\* nothing at all (no onChange, so no step that sets the inputs).
C22_NumberFieldEdits ==
    [][\A f \in Fields :
          InputGroupNumber(f) =>
              /\ \E text \in TypedTexts(f) :
                     text.k = "num" /\ inputs'[f] = Clamped(f, text)
              /\ InRange(f, inputs'[f])
              /\ results' = results
              /\ storage' = storage]_vars

\* 30000 was just typed in the integration-cost field and 25000 written
C22_Witness ==
    /\ "inputs" \in changed
    /\ view.inputs.yearlyIntegrationCost # Num(25000)
    /\ inputs.yearlyIntegrationCost = Num(25000)
    /\ \A f \in Fields \ {"yearlyIntegrationCost"} : inputs[f] = view.inputs[f]

\* ------------------------------------------------------------------------
\* The one-time-cost revision

\* (hoursPerWeek * 52 + errorCorrectionHours * 12) * monthlySalary / 160
OneTimeExpectedManual(s) ==
    LET h == s.hoursPerWeek
        e == s.errorCorrectionHours
        hours == Rat(52 * h.n * e.d + 12 * e.n * h.d, h.d * e.d)
        rate == Rat(s.monthlySalary.n, 160 * s.monthlySalary.d)
        g == Gcd(hours.n, rate.d)
    IN  Rat((hours.n \div g) * rate.n, hours.d * (rate.d \div g))

OneTimeScenario(in) ==
    /\ in.monthlySalary = Num(50000)
    /\ in.hoursPerWeek = Num(4)
    /\ in.errorCorrectionHours = Num(2)
    /\ in.apiCost = Num(50000)

\* C23: in the one-time-cost revision savings3Year = 3 x manualAnnualCost -
\* apiCost and, for apiCost > 0, roiPercent = (manualAnnualCost - apiCost) /
\* apiCost x 100, neither floored at zero; a salary of 50,000 with 4 hours a
\* week, 2 error hours a month and an API cost of 50,000 shows One Year
\* Returns 22,500, ROI 45 and 3-Year Savings 167,500; whenever apiCost is
\* above manualAnnualCost the ROI shown is negative.
C23_OneTimeCostFormulas ==
    Shown =>
        LET s == OneTimeSanitizedInputs(view.inputs)
            c == s.apiCost
            m == results.manualAnnualCost
        IN  /\ c.k = "num" /\ m.k = "num"
            /\ m = OneTimeExpectedManual(s)
            /\ results.savings3Year = Rat(3 * m.n * c.d - c.n * m.d, m.d * c.d)
            /\ c.n > 0 =>
                  results.roiPercent = Rat(100 * (m.n * c.d - c.n * m.d), m.d * c.n)
            /\ OneTimeScenario(s) =>
                  /\ OneTimeOneYearReturnsCard = Num(22500)
                  /\ OneTimeRoiCard = Num(45)
                  /\ OneTimeSavings3YearCard = Num(167500)
            /\ c.n * m.d > m.n * c.d =>
                  OneTimeRoiCard.k = "num" /\ OneTimeRoiCard.n < 0

C23_Witness ==
    /\ Shown
    /\ OneTimeScenario(view.inputs)
    /\ OneTimeRoiCard = Num(45)
    /\ OneTimeSavings3YearCard = Num(167500)

OneTimeCalcStep == effects # <<>> /\ Head(effects) = "calc" /\ effects' = Tail(effects)

\* the render that follows a run of the calculation effect
OneTimeRenderAfterCalc ==
    effects = <<>> /\ "results" \in changed /\ changed' = {} /\ ~crashed'

OneTimeInRange(f, v) ==
    /\ v.k = "num"
    /\ OneTimePropMin(f).n * v.d <= v.n
    /\ v.n <= OneTimePropMax(f).n * v.d

OneTimeFixedPoint(in) ==
    /\ in = OneTimeSanitizedInputs(in)
    /\ \A f \in OneTimeFields : OneTimeInRange(f, in[f])

\* C24: the calculation effect of the one-time-cost revision writes the
\* sanitized record back and depends on the four fields; the record it writes
\* is a fixed point of the sanitizer with every field in range, the render
\* after a run shows that fixed point, a run on a fixed point is not followed
\* by another run, and whenever nothing is scheduled the inputs equal their
\* own sanitization: the feedback ends after at most two runs.  The sanitized
\* form of any stored record without text fields is such a fixed point too.
C24_SanitizeFeedbackTerminates ==
    /\ [][OneTimeCalcStep =>
             inputs' = OneTimeSanitizedInputs(view.inputs) /\ OneTimeFixedPoint(inputs')]_vars
    /\ [][OneTimeRenderAfterCalc => OneTimeFixedPoint(view'.inputs)]_vars
    /\ [][(OneTimeRenderAfterCalc /\ OneTimeFixedPoint(view.inputs)) =>
             \A i \in 1..Len(effects') : effects'[i] # "calc"]_vars
    /\ [](Idle => (CalcDone /\ OneTimeFixedPoint(inputs)))
    /\ [](LET stored == OneTimeParseInputs(storage.roi_inputs)
          IN  (stored.shape = "object" /\ \A f \in OneTimeFields : stored[f].k # "str") =>
                  OneTimeFixedPoint(OneTimeSanitizedInputs(stored)))

\* the feedback has ended although the stored inputs were out of range
C24_Witness ==
    /\ Idle
    /\ storage.roi_inputs.t = "object"
    /\ storage.roi_inputs.v.apiCost = StringifyMember(Num(6000000))
    /\ results.manualAnnualCost = Num(72500)
    /\ OneTimeFixedPoint(inputs)

\* ------------------------------------------------------------------------
\* Results and inputs over time

\* a run of the calculation is still to come: the effect is queued, or the
\* inputs were set and the render that queues it has not happened
CalcPending == "inputs" \in changed \/ \E i \in 1..Len(effects) : effects[i] = "calc"

\* the mount effects have not started
BeforeMountEffects == Len(effects) = 4

\* C25: once the pending run of the calculation effect has happened, after
\* edits or a load from storage, the results are the ones derived from the
\* sanitized current inputs and hrCount is a number >= 1; results and inputs
\* differ only while a run is pending, and before the first run the results
\* are all zeros with hrCount 0.
C25_ResultsCatchUp ==
    /\ (~crashed /\ ~CalcPending) =>
           /\ results = CalcResults(inputs)
           /\ results.hrCount.k = "num"
           /\ results.hrCount.n >= 1
    /\ BeforeMountEffects => (results = InitialResults /\ results.hrCount = Num(0))

\* ------------------------------------------------------------------------
\* The Customize modal

\* the file has been read and onloadend has run
ReadEnds == reader.reading /\ ~reader'.reading

\* C26: when the read of a logo file ends after the user has changed the
\* theme colour or the currency in the meantime, the config after onloadend
\* has the new logoUrl together with the latest themeColor and currency: the
\* callback reverts no change made while the file was being read.
C26_LogoUploadKeepsEdits ==
    [][ReadEnds =>
          /\ config'.logoUrl = reader.result
          /\ config'.themeColor = config.themeColor
          /\ config'.currency = config.currency]_vars

\* a handler or callback sets the config
ConfigEditStep == Idle /\ "config" \in changed'

\* a modal is opened or closed
ModalStep == isEditingConfig' # isEditingConfig \/ isHowItWorksOpen' # isHowItWorksOpen

\* the render after config or modal changes only
RenderOfConfig ==
    /\ effects = <<>>
    /\ changed # {}
    /\ changed \subseteq {"config", "modal"}
    /\ changed' = {}

SaveConfigStep == effects # <<>> /\ Head(effects) = "saveConfig" /\ effects' = Tail(effects)

\* C28: a change of the config (theme colour, currency, logo set or removed)
\* and the opening or closing of either modal leave inputs, results and the
\* stored 'roi_inputs' as they are and schedule no calculation: the render
\* that follows queues at most the save of the config, which writes
\* 'roi_config' only.  'Save & Recalculate' closes the modal and does nothing
\* else.
C28_ConfigEditsFramedOff ==
    /\ [][(ConfigEditStep \/ ModalStep) =>
             /\ inputs' = inputs
             /\ results' = results
             /\ storage' = storage
             /\ effects' = effects
             /\ changed' \ changed \subseteq {"config", "modal"}]_vars
    /\ [][RenderOfConfig =>
             /\ effects' \in {<<>>, <<"saveConfig">>}
             /\ view'.inputs = view.inputs
             /\ view'.results = view.results
             /\ <<inputs', results', storage'>> = <<inputs, results, storage>>]_vars
    /\ [][SaveConfigStep =>
             /\ storage'.roi_inputs = storage.roi_inputs
             /\ <<inputs', results'>> = <<inputs, results>>]_vars
    /\ [][(isEditingConfig /\ ~isEditingConfig') =>
             /\ changed' = changed \cup {"modal"}
             /\ <<config', inputs', results', view', effects', crashed', storage'>>
                    = <<config, inputs, results, view, effects, crashed, storage>>
             /\ <<isHowItWorksOpen', reader'>> = <<isHowItWorksOpen, reader>>]_vars

\* the modal was closed over a new colour, currency and logo; the results
\* are those of the inputs
C28_Witness ==
    /\ Idle
    /\ ~isEditingConfig
    /\ config.currency = "USD"
    /\ config.themeColor = "#abc"
    /\ config.logoUrl = "data:upload"
    /\ storage.roi_config = StringifyConfig(config)
    /\ results = CalcResults(inputs)
    /\ results.hrCount = Num(4)

\* ------------------------------------------------------------------------
\* The two keys of local storage

\* the key holds JSON text
Parses(text) == text.t \notin {"absent", "malformed"}

\* C27: the two keys are parsed in one try block, config first: a malformed
\* 'roi_config' also keeps a stored 'roi_inputs' that parses from being
\* restored (the inputs stay the defaults and nothing is set), whereas with a
\* malformed 'roi_inputs' a stored 'roi_config' that parses is applied.
C27_LoadCoupling ==
    [][LoadStep =>
          /\ (storage.roi_config.t = "malformed" /\ Parses(storage.roi_inputs)) =>
                 /\ inputs' = DefaultInputs
                 /\ inputs' # ParseInputs(storage.roi_inputs)
                 /\ changed' = {}
          /\ (storage.roi_inputs.t = "malformed" /\ Parses(storage.roi_config)) =>
                 /\ config' = ParseConfig(storage.roi_config)
                 /\ "config" \in changed'
                 /\ "inputs" \notin changed']_vars

\* mounted over a malformed 'roi_config' and a saved record that no write
\* has replaced: the inputs are the defaults, not the record
C27_Witness ==
    /\ Idle
    /\ storageFull
    /\ storage.roi_config.t = "malformed"
    /\ storage.roi_inputs = ObjectText(SavedMembers)
    /\ inputs = DefaultInputs
    /\ config = DefaultConfig

\* ------------------------------------------------------------------------
\* Year-1 savings and 3-year savings

\* max(0, m - c) of two numbers
ExpectedYear1(m, c) ==
    IF m.n * c.d > c.n * m.d THEN Rat(m.n * c.d - c.n * m.d, m.d * c.d) ELSE Num(0)

\* C29: for sanitized inputs savings3Year is three times the Year-1 savings
\* max(0, manualAnnualCost - yearlyIntegrationCost); savings3Year > 0 exactly
\* when the Year-1 savings are > 0, and roiPercent > 0 exactly when the
\* Year-1 savings are > 0 and the integration cost is > 0.
C29_ThreeTimesYear1 ==
    /\ CalcDone => results.savings3Year = JsMul(Num(3), year1Returns(Sanitized))
    /\ (CalcDone /\ AllNumbers) =>
           LET m == results.manualAnnualCost
               c == results.apiFirstYearCost
               y == ExpectedYear1(m, c)
           IN  /\ year1Returns(Sanitized) = y
               /\ results.savings3Year = Rat(3 * y.n, y.d)
               /\ (results.savings3Year.n > 0) <=> (y.n > 0)
               /\ (results.roiPercent.k = "num" /\ results.roiPercent.n > 0)
                      <=> (y.n > 0 /\ c.n > 0)

\* a run where the integration cost is above the manual cost: all three are 0
C29_Witness ==
    /\ CalcDone
    /\ AllNumbers
    /\ results.apiFirstYearCost = Num(15000)
    /\ results.manualAnnualCost = Num(6500)
    /\ results.savings3Year = Num(0)
    /\ results.roiPercent = Num(0)

\* ------------------------------------------------------------------------
\* CountUp

\* an animation frame runs
FrameStep == frames # <<>> /\ end' = end /\ frames' # frames

\* C30: when no frame is requested any more the count displayed is exactly
\* the current end; after end has changed in the middle of an animation, the
\* cleanup has cancelled the animation before, so that every callback that
\* runs in a frame is one of the animation towards the current end.
C30_CountUpSettles ==
    /\ [](frames = <<>> => count = end)
    /\ [][FrameStep => \A i \in 1..Len(frames) : frames[i].end = end]_vars

====
